---------------------------- MODULE Spec2Model ----------------------------
(***************************************************************************)
(* A model of src/utils/scrape.py: the pipeline                            *)
(*   validate_arguments -> convert_selectors_to_xpath ->                   *)
(*   parse_html_document -> process_elements -> write_output               *)
(* run by main().  Text is modelled by TLA+ strings, which TLC treats as   *)
(* sequences of characters (Len, SubSeq and \o apply to them).             *)
(***************************************************************************)
EXTENDS Integers, Sequences, FiniteSets, TLC

\* ------------------------------------------------------------ constants
XPATH_PREFIX == "//"
HTML_DOCTYPE == "<!DOCTYPE html>"
HTML_OPEN_TAGS == "<html>\n<body>"
HTML_CLOSE_TAGS == "</body>\n</html>"
SUCCESS_EXIT_CODE == 0
ERROR_EXIT_CODE == 1
ELEMENT_SEPARATOR == "\t"
LINE_SEPARATOR == "\n"
EMPTY_HTML_FALLBACK == "<html><body></body></html>"

\* ------------------------------------------------------------ strings
\* str.startswith
StartsWith(s, p) == Len(s) >= Len(p) /\ SubSeq(s, 1, Len(p)) = p

\* str.endswith
EndsWith(s, p) == Len(s) >= Len(p) /\ SubSeq(s, Len(s) - Len(p) + 1, Len(s)) = p

\* the i-th character of s
CharAt(s, i) == SubSeq(s, i, i)

\* the characters str.strip() removes
Whitespace == {" ", "\t", "\n", "\r"}

RECURSIVE LStrip(_)
LStrip(s) ==
  IF Len(s) > 0 /\ CharAt(s, 1) \in Whitespace
  THEN LStrip(SubSeq(s, 2, Len(s)))
  ELSE s

RECURSIVE RStrip(_)
RStrip(s) ==
  IF Len(s) > 0 /\ CharAt(s, Len(s)) \in Whitespace
  THEN RStrip(SubSeq(s, 1, Len(s) - 1))
  ELSE s

\* str.strip()
Strip(s) == RStrip(LStrip(s))

\* the first index >= i at which character c occurs in s, or Len(s) + 1
RECURSIVE Find(_, _, _)
Find(s, c, i) ==
  IF i > Len(s) THEN Len(s) + 1
  ELSE IF CharAt(s, i) = c THEN i
  ELSE Find(s, c, i + 1)

\* whether needle occurs in s at or after index i
RECURSIVE ContainsFrom(_, _, _)
ContainsFrom(s, needle, i) ==
  IF i + Len(needle) - 1 > Len(s) THEN FALSE
  ELSE IF SubSeq(s, i, i + Len(needle) - 1) = needle THEN TRUE
  ELSE ContainsFrom(s, needle, i + 1)

Contains(s, needle) == ContainsFrom(s, needle, 1)

\* sep.join(parts)
RECURSIVE Join(_, _)
Join(parts, sep) ==
  IF Len(parts) = 0 THEN ""
  ELSE IF Len(parts) = 1 THEN parts[1]
  ELSE parts[1] \o sep \o Join(Tail(parts), sep)

\* list(s) for a string s: its characters, one item each
RECURSIVE Chars(_)
Chars(s) == IF Len(s) = 0 THEN <<>> ELSE <<CharAt(s, 1)>> \o Chars(SubSeq(s, 2, Len(s)))

NameChars ==
  {"a", "b", "c", "d", "e", "f", "g", "h", "i", "j", "k", "l", "m", "n", "o",
   "p", "q", "r", "s", "t", "u", "v", "w", "x", "y", "z",
   "0", "1", "2", "3", "4", "5", "6", "7", "8", "9", "-", "_"}

\* whether s is a non-empty run of name characters
RECURSIVE IsNameFrom(_, _)
IsNameFrom(s, i) ==
  IF i > Len(s) THEN TRUE
  ELSE CharAt(s, i) \in NameChars /\ IsNameFrom(s, i + 1)

IsName(s) == Len(s) > 0 /\ IsNameFrom(s, 1)

\* ------------------------------------------------------------ markup
\* The HTML/XML parser and the XPath evaluator are lxml's; the definitions
\* of this section model their behaviour on the markup subset the model's
\* documents use: <tag name="value" ...>, </tag> and character data.

\* attributes of a start tag: name="value" pairs separated by blanks
RECURSIVE ParseAttrs(_)
ParseAttrs(s) ==
  LET t == LStrip(s)
      eq == Find(t, "=", 1)
      q2 == Find(t, "\"", eq + 2)
  IN IF Len(t) = 0 \/ eq > Len(t) THEN <<>>
     ELSE <<[name |-> SubSeq(t, 1, eq - 1), value |-> SubSeq(t, eq + 2, q2 - 1)]>>
          \o ParseAttrs(SubSeq(t, q2 + 1, Len(t)))

\* the token that the text between "<" and ">" stands for
TagToken(inner) ==
  IF StartsWith(inner, "/")
  THEN [k |-> "close", tag |-> SubSeq(inner, 2, Len(inner))]
  ELSE LET sp == Find(inner, " ", 1)
       IN [k |-> "open", tag |-> SubSeq(inner, 1, sp - 1),
           attrs |-> ParseAttrs(SubSeq(inner, sp + 1, Len(inner)))]

\* the tokens of markup s from index i on
RECURSIVE Tokenize(_, _)
Tokenize(s, i) ==
  IF i > Len(s) THEN <<>>
  ELSE IF CharAt(s, i) = "<"
  THEN LET j == Find(s, ">", i)
       IN <<TagToken(SubSeq(s, i + 1, j - 1))>> \o Tokenize(s, j + 1)
  ELSE LET j == Find(s, "<", i)
       IN <<[k |-> "text", text |-> SubSeq(s, i, j - 1)]>> \o Tokenize(s, j)

IsText(n) == "text" \in DOMAIN n

InSeq(x, seq) == \E i \in 1..Len(seq) : seq[i] = x

\* The children of the element whose start tag was just read (stack holds the
\* names of the open elements, innermost first), from token i on.  strict is
\* the XML parser: a mismatched or missing end tag is an error.  Otherwise the
\* recovering HTML parser: an end tag of an enclosing element closes the
\* elements inside it, an end tag of no open element is dropped, and the end
\* of input closes everything.
RECURSIVE ParseKids(_, _, _, _)
ParseKids(toks, i, stack, strict) ==
  IF i > Len(toks)
  THEN [kids |-> <<>>, next |-> i, ok |-> (stack = <<>>) \/ ~strict]
  ELSE LET tok == toks[i] IN
    CASE tok.k = "text" ->
           LET rest == ParseKids(toks, i + 1, stack, strict)
           IN [kids |-> <<[text |-> tok.text]>> \o rest.kids,
               next |-> rest.next, ok |-> rest.ok]
      [] tok.k = "open" ->
           LET inner == ParseKids(toks, i + 1, <<tok.tag>> \o stack, strict)
               rest == ParseKids(toks, inner.next, stack, strict)
               node == [tag |-> tok.tag, attrs |-> tok.attrs, kids |-> inner.kids]
           IN IF ~inner.ok
              THEN [kids |-> <<>>, next |-> inner.next, ok |-> FALSE]
              ELSE [kids |-> <<node>> \o rest.kids, next |-> rest.next, ok |-> rest.ok]
      [] tok.k = "close" ->
           IF stack # <<>> /\ Head(stack) = tok.tag
           THEN [kids |-> <<>>, next |-> i + 1, ok |-> TRUE]
           ELSE IF strict THEN [kids |-> <<>>, next |-> i, ok |-> FALSE]
           ELSE IF InSeq(tok.tag, stack) THEN [kids |-> <<>>, next |-> i, ok |-> TRUE]
           ELSE ParseKids(toks, i + 1, stack, strict)

Element(tag, kids) == [tag |-> tag, attrs |-> <<>>, kids |-> kids]

\* etree.fromstring(content): the strict XML parser.  The document must be
\* exactly one well-nested element.
XmlParse(content) ==
  LET r == ParseKids(Tokenize(content, 1), 1, <<>>, TRUE)
  IN IF r.ok /\ Len(r.kids) = 1 /\ ~IsText(r.kids[1])
     THEN [ok |-> TRUE, root |-> r.kids[1]]
     ELSE [ok |-> FALSE]

\* etree.parse(source, HTMLParser(recover=True)) on non-empty content: the
\* recovered content, put inside html and body elements when it does not
\* bring its own html element.
HtmlParse(content) ==
  LET r == ParseKids(Tokenize(content, 1), 1, <<>>, FALSE)
  IN IF Len(r.kids) = 1 /\ ~IsText(r.kids[1]) /\ r.kids[1].tag = "html"
     THEN [ok |-> TRUE, root |-> r.kids[1]]
     ELSE [ok |-> TRUE, root |-> Element("html", <<Element("body", r.kids)>>)]

RECURSIVE SerializeAttrs(_)
SerializeAttrs(attrs) ==
  IF attrs = <<>> THEN ""
  ELSE " " \o attrs[1].name \o "=\"" \o attrs[1].value \o "\"" \o SerializeAttrs(Tail(attrs))

\* the markup of a node: etree.tostring's default XML method, which writes an
\* element without children as <tag/>
RECURSIVE Serialize(_)
RECURSIVE SerializeKids(_)
Serialize(n) ==
  IF IsText(n) THEN n.text
  ELSE IF n.kids = <<>> THEN "<" \o n.tag \o SerializeAttrs(n.attrs) \o "/>"
  ELSE "<" \o n.tag \o SerializeAttrs(n.attrs) \o ">" \o SerializeKids(n.kids)
       \o "</" \o n.tag \o ">"
SerializeKids(kids) ==
  IF kids = <<>> THEN "" ELSE Serialize(kids[1]) \o SerializeKids(Tail(kids))

\* etree.tostring(element): the element's markup followed by its tail, the
\* character data between its end tag and the next tag
tostring(e) == Serialize(e.node) \o e.tail

\* element.get(attribute): the value, or None
RECURSIVE GetAttr(_, _)
GetAttr(attrs, name) ==
  IF attrs = <<>> THEN [none |-> TRUE]
  ELSE IF attrs[1].name = name THEN [none |-> FALSE, value |-> attrs[1].value]
  ELSE GetAttr(Tail(attrs), name)

\* the elements of the subtree of n, in document order, each with its tail
RECURSIVE Descendants(_, _)
RECURSIVE DescendantsOfKids(_, _)
Descendants(n, tail) ==
  <<[kind |-> "el", node |-> n, tail |-> tail]>> \o DescendantsOfKids(n.kids, 1)
DescendantsOfKids(kids, i) ==
  IF i > Len(kids) THEN <<>>
  ELSE IF IsText(kids[i]) THEN DescendantsOfKids(kids, i + 1)
  ELSE LET tail == IF i < Len(kids) /\ IsText(kids[i + 1]) THEN kids[i + 1].text ELSE ""
       IN Descendants(kids[i], tail) \o DescendantsOfKids(kids, i + 1)

\* the child elements of n, in document order, each with its tail
RECURSIVE ChildElements(_, _)
ChildElements(kids, i) ==
  IF i > Len(kids) THEN <<>>
  ELSE IF IsText(kids[i]) THEN ChildElements(kids, i + 1)
  ELSE LET tail == IF i < Len(kids) /\ IsText(kids[i + 1]) THEN kids[i + 1].text ELSE ""
       IN <<[kind |-> "el", node |-> kids[i], tail |-> tail]>> \o ChildElements(kids, i + 1)

\* the XPath string-value of a node: its character data, in document order
RECURSIVE StringValue(_)
RECURSIVE StringValueOfKids(_)
StringValue(n) == IF IsText(n) THEN n.text ELSE StringValueOfKids(n.kids)
StringValueOfKids(kids) ==
  IF kids = <<>> THEN "" ELSE StringValue(kids[1]) \o StringValueOfKids(Tail(kids))

\* ------------------------------------------------------------ XPath
\* XPath's normalize-space(): stripped, inner runs of blanks made one space
RECURSIVE Collapse(_)
Collapse(s) ==
  IF Len(s) = 0 THEN ""
  ELSE IF CharAt(s, 1) \in Whitespace
  THEN " " \o Collapse(LStrip(s))
  ELSE CharAt(s, 1) \o Collapse(SubSeq(s, 2, Len(s)))

NormalizeSpace(s) == Collapse(Strip(s))

\* the predicate cssselect writes for the class selector .cls
ClassPredOpen == "[@class and contains(concat(' ', normalize-space(@class), ' '), ' "
ClassPredClose == " ')]"

BadQuery == [ok |-> FALSE]

\* what follows the element name of a location path: nothing, /text(),
\* /@name, or the class predicate
ParseStepRest(q, after) ==
  IF after = "" THEN q
  ELSE IF after = "/text()" THEN [q EXCEPT !.proj = "text"]
  ELSE IF StartsWith(after, "/@") /\ IsName(SubSeq(after, 3, Len(after)))
  THEN [q EXCEPT !.proj = "attr", !.attr = SubSeq(after, 3, Len(after))]
  ELSE IF StartsWith(after, ClassPredOpen) /\ EndsWith(after, ClassPredClose)
          /\ Len(after) > Len(ClassPredOpen) + Len(ClassPredClose)
  THEN [q EXCEPT !.cls = SubSeq(after, Len(ClassPredOpen) + 1,
                                Len(after) - Len(ClassPredClose))]
  ELSE BadQuery

\* the end of the element name that starts rest: the first [ or /
NameEnd(rest) == Find(rest, IF Find(rest, "[", 1) < Find(rest, "/", 1) THEN "[" ELSE "/", 1)

\* the step name..., on the axis axis
ParseStep(axis, rest, nameEnd, fn) ==
  IF ~IsName(SubSeq(rest, 1, nameEnd - 1)) THEN BadQuery
  ELSE ParseStepRest([ok |-> TRUE, fn |-> fn, axis |-> axis,
                      tag |-> SubSeq(rest, 1, nameEnd - 1),
                      cls |-> "", proj |-> "node", attr |-> ""],
                     SubSeq(rest, nameEnd, Len(rest)))

ParseAxis(axis, rest, fn) == ParseStep(axis, rest, NameEnd(rest), fn)

\* a location path of the forms //name, descendant-or-self::name and ./name
ParsePath(path, fn) ==
  IF StartsWith(path, "//") THEN ParseAxis("desc", SubSeq(path, 3, Len(path)), fn)
  ELSE IF StartsWith(path, "descendant-or-self::")
  THEN ParseAxis("desc", SubSeq(path, Len("descendant-or-self::") + 1, Len(path)), fn)
  ELSE IF StartsWith(path, "./") THEN ParseAxis("child", SubSeq(path, 3, Len(path)), fn)
  ELSE BadQuery

\* the XPath expressions the evaluator is modelled on: a location path, a
\* parenthesised one, (string(path)) and (count(path)); any other text is
\* an expression the evaluator rejects.  XPathBody is the path and the
\* function applied to it.
XPathBody(xp) ==
  IF StartsWith(xp, "(string(") /\ EndsWith(xp, "))")
  THEN [path |-> SubSeq(xp, 9, Len(xp) - 2), fn |-> "string"]
  ELSE IF StartsWith(xp, "(count(") /\ EndsWith(xp, "))")
  THEN [path |-> SubSeq(xp, 8, Len(xp) - 2), fn |-> "count"]
  ELSE IF StartsWith(xp, "(") /\ EndsWith(xp, ")")
  THEN [path |-> SubSeq(xp, 2, Len(xp) - 1), fn |-> ""]
  ELSE [path |-> xp, fn |-> ""]

ParseBody(body) == ParsePath(body.path, body.fn)

ParseXPath(xp) == ParseBody(XPathBody(xp))

HasClass(node, cls) ==
  LET a == GetAttr(node.attrs, "class")
  IN ~a.none /\ Contains(" " \o NormalizeSpace(a.value) \o " ", " " \o cls \o " ")

StrItem(s) == [kind |-> "str", value |-> s]

\* the text() children of the elements es, in document order
RECURSIVE TextKids(_, _)
TextKids(kids, i) ==
  IF i > Len(kids) THEN <<>>
  ELSE IF IsText(kids[i]) THEN <<StrItem(kids[i].text)>> \o TextKids(kids, i + 1)
  ELSE TextKids(kids, i + 1)

RECURSIVE TextsOf(_)
TextsOf(es) ==
  IF es = <<>> THEN <<>> ELSE TextKids(es[1].node.kids, 1) \o TextsOf(Tail(es))

\* the @name values of the elements es that carry the attribute
RECURSIVE AttrsOf(_, _)
AttrsOf(es, name) ==
  IF es = <<>> THEN <<>>
  ELSE LET a == GetAttr(es[1].node.attrs, name)
       IN (IF a.none THEN <<>> ELSE <<StrItem(a.value)>>) \o AttrsOf(Tail(es), name)

\* the XPath string-value of a result item
ItemString(item) == IF item.kind = "str" THEN item.value ELSE StringValue(item.node)

\* the elements query q selects, in document order
SelectElements(root, q) ==
  LET Keep(e) == e.node.tag = q.tag /\ (q.cls = "" \/ HasClass(e.node, q.cls))
  IN SelectSeq(IF q.axis = "desc" THEN Descendants(root, "")
               ELSE ChildElements(root.kids, 1),
               Keep)

\* the node-set of query q: the elements es, their text() children or
\* their @name values
Project(es, q) ==
  CASE q.proj = "node" -> es
    [] q.proj = "text" -> TextsOf(es)
    [] q.proj = "attr" -> AttrsOf(es, q.attr)

\* the value of query q, whose node-set is items
QueryValue(q, items) ==
  IF q.fn = "string"
  THEN [kind |-> "string", value |-> IF items = <<>> THEN "" ELSE ItemString(items[1])]
  ELSE IF q.fn = "count" THEN [kind |-> "number", value |-> Len(items)]
  ELSE [kind |-> "nodeset", items |-> items]

EvaluateQuery(root, q) ==
  IF ~q.ok THEN [kind |-> "error"]
  ELSE QueryValue(q, Project(SelectElements(root, q), q))

\* document_tree.xpath(expression): a node-set (elements, or strings for
\* text() and @name), a string, a number, or XPathEvalError
Evaluate(root, xp) == EvaluateQuery(root, ParseXPath(xp))

RECURSIVE StrItems(_)
StrItems(cs) == IF cs = <<>> THEN <<>> ELSE <<StrItem(cs[1])>> \o StrItems(Tail(cs))

\* mutant: an expression the evaluator rejects is taken to match nothing
ListOf_Tolerant(result) ==
  CASE result.kind = "nodeset" -> [ok |-> TRUE, items |-> result.items]
    [] result.kind = "string" -> [ok |-> TRUE, items |-> StrItems(Chars(result.value))]
    [] result.kind = "number" -> [ok |-> FALSE, err |-> "eval_failed"]
    [] result.kind = "error" -> [ok |-> TRUE, items |-> <<>>]

\* list(result) inside the try block: the items of a node-set; the
\* characters of a string, one item each; TypeError for a number, which is
\* not iterable; and the XPathEvalError passed on
ListOf(result) ==
  CASE result.kind = "nodeset" -> [ok |-> TRUE, items |-> result.items]
    [] result.kind = "string" -> [ok |-> TRUE, items |-> StrItems(Chars(result.value))]
    [] result.kind = "number" -> [ok |-> FALSE, err |-> "eval_failed"]
    [] result.kind = "error" -> [ok |-> FALSE, err |-> "invalid_xpath"]

\* GenericTranslator().css_to_xpath(selector) on the selectors name and
\* name.class; any other text is a selector the translator rejects
css_to_xpath(selector) ==
  LET dot == Find(selector, ".", 1)
      name == SubSeq(selector, 1, dot - 1)
      cls == SubSeq(selector, dot + 1, Len(selector))
  IN IF IsName(selector)
     THEN [ok |-> TRUE, xpath |-> "descendant-or-self::" \o selector]
     ELSE IF IsName(name) /\ IsName(cls)
     THEN [ok |-> TRUE,
           xpath |-> "descendant-or-self::" \o name \o ClassPredOpen \o cls \o ClassPredClose]
     ELSE [ok |-> FALSE]

\* ------------------------------------------------------------ program
\* mutant: "or" applied to the prefixes, not to the tests, is always true
is_xpath_selector_Always(selector) ==
  StartsWith(selector, XPATH_PREFIX) \/ "./" # "" \/ "(" # ""

\* is_xpath_selector
is_xpath_selector(selector) ==
  StartsWith(selector, XPATH_PREFIX) \/ StartsWith(selector, "./") \/ StartsWith(selector, "(")

\* mutant: a selector the translator rejects is kept as it is
ConvertOne_KeepRejected(selector, has_cssselect) ==
  IF is_xpath_selector(selector) THEN [ok |-> TRUE, xpath |-> selector]
  ELSE IF ~has_cssselect THEN [ok |-> FALSE, err |-> "no_cssselect"]
  ELSE LET t == css_to_xpath(selector)
       IN IF t.ok THEN t ELSE [ok |-> TRUE, xpath |-> selector]

\* One turn of the loop of convert_selectors_to_xpath: the entry appended for
\* selector, or the error that ends the process.
ConvertOne(selector, has_cssselect) ==
  IF is_xpath_selector(selector) THEN [ok |-> TRUE, xpath |-> selector]
  ELSE IF ~has_cssselect THEN [ok |-> FALSE, err |-> "no_cssselect"]
  ELSE LET t == css_to_xpath(selector)
       IN IF t.ok THEN t ELSE [ok |-> FALSE, err |-> "invalid_css"]

\* convert_selectors_to_xpath: the loop from selector i on, acc being
\* xpath_expressions so far
RECURSIVE ConvertFrom(_, _, _, _)
ConvertFrom(selectors, i, acc, has_cssselect) ==
  IF i > Len(selectors) THEN [ok |-> TRUE, xpath_expressions |-> acc]
  ELSE LET r == ConvertOne(selectors[i], has_cssselect)
       IN IF r.ok THEN ConvertFrom(selectors, i + 1, Append(acc, r.xpath), has_cssselect)
          ELSE [ok |-> FALSE, err |-> r.err, at |-> i]

convert_selectors_to_xpath(selectors, has_cssselect) ==
  ConvertFrom(selectors, 1, <<>>, has_cssselect)

None == [none |-> TRUE]
Some(text) == [none |-> FALSE, text |-> text]

\* mutant: the element's character data in place of its markup
extract_element_text_Content(element, attribute) ==
  IF element.kind = "str" THEN Some(element.value)
  ELSE IF attribute = "" THEN Some(StringValue(element.node) \o element.tail)
  ELSE LET a == GetAttr(element.node.attrs, attribute)
       IN IF a.none THEN None ELSE Some(a.value)

\* mutant: an element without the attribute gives its markup
extract_element_text_Fallback(element, attribute) ==
  IF element.kind = "str" THEN Some(element.value)
  ELSE LET a == GetAttr(element.node.attrs, attribute)
       IN IF attribute = "" \/ a.none THEN Some(tostring(element)) ELSE Some(a.value)

\* extract_element_text.  Byte strings and text strings are both strings
\* here: the model's documents are ASCII, on which decode() changes nothing.
extract_element_text(element, attribute) ==
  IF element.kind = "str" THEN Some(element.value)
  ELSE IF attribute = "" THEN Some(tostring(element))
  ELSE LET a == GetAttr(element.node.attrs, attribute)
       IN IF a.none THEN None ELSE Some(a.value)

\* mutant: the text is put in front of the list
AppendText_Prepend(extracted_texts, element, attribute) ==
  LET element_text == extract_element_text(element, attribute)
      stripped_text == Strip(element_text.text)
  IN IF ~element_text.none /\ element_text.text # "" /\ stripped_text # ""
     THEN <<stripped_text>> \o extracted_texts
     ELSE extracted_texts

\* mutant: the text is appended as extracted, not trimmed
AppendText_Untrimmed(extracted_texts, element, attribute) ==
  LET element_text == extract_element_text(element, attribute)
  IN IF ~element_text.none /\ element_text.text # ""
     THEN Append(extracted_texts, element_text.text)
     ELSE extracted_texts

\* The body of the inner loop of process_elements for one element: the
\* list extracted_texts after it.
AppendText(extracted_texts, element, attribute) ==
  LET element_text == extract_element_text(element, attribute)
      stripped_text == Strip(element_text.text)
  IN IF ~element_text.none /\ element_text.text # "" /\ stripped_text # ""
     THEN Append(extracted_texts, stripped_text)
     ELSE extracted_texts

\* mutant: one entry per line
Writes_LinePerEntry(extracted_texts, include_body_tags) ==
  (IF include_body_tags
   THEN <<HTML_DOCTYPE \o LINE_SEPARATOR \o HTML_OPEN_TAGS \o LINE_SEPARATOR>> ELSE <<>>)
  \o (IF extracted_texts # <<>> THEN <<Join(extracted_texts, LINE_SEPARATOR)>> ELSE <<>>)
  \o (IF include_body_tags THEN <<LINE_SEPARATOR \o HTML_CLOSE_TAGS>> ELSE <<>>)
  \o <<LINE_SEPARATOR>>

\* mutant: the final newline is written only after a joined line
Writes_NewlineAfterTexts(extracted_texts, include_body_tags) ==
  (IF include_body_tags
   THEN <<HTML_DOCTYPE \o LINE_SEPARATOR \o HTML_OPEN_TAGS \o LINE_SEPARATOR>> ELSE <<>>)
  \o (IF extracted_texts # <<>>
      THEN <<Join(extracted_texts, ELEMENT_SEPARATOR), LINE_SEPARATOR>> ELSE <<>>)
  \o (IF include_body_tags THEN <<LINE_SEPARATOR \o HTML_CLOSE_TAGS>> ELSE <<>>)

\* write_output: the strings handed to sys.stdout.write, in order
Writes(extracted_texts, include_body_tags) ==
  (IF include_body_tags
   THEN <<HTML_DOCTYPE \o LINE_SEPARATOR \o HTML_OPEN_TAGS \o LINE_SEPARATOR>> ELSE <<>>)
  \o (IF extracted_texts # <<>> THEN <<Join(extracted_texts, ELEMENT_SEPARATOR)>> ELSE <<>>)
  \o (IF include_body_tags THEN <<LINE_SEPARATOR \o HTML_CLOSE_TAGS>> ELSE <<>>)
  \o <<LINE_SEPARATOR>>

\* what the reader of standard output has received once the first n of the
\* strings writes got through
Delivered(writes, n) == Join(SubSeq(writes, 1, n), "")

\* write_output: what reaches standard output when every write gets through
Render(extracted_texts, include_body_tags) ==
  Delivered(Writes(extracted_texts, include_body_tags),
            Len(Writes(extracted_texts, include_body_tags)))

\* exit(main()) with output that cannot be flushed: the interpreter flushes
\* sys.stdout when it exits, and if that fails it reports the exception it
\* ignores on standard error and ends with this status
FLUSH_FAILED_EXIT_CODE == 120

\* The status of exit(main()) after write_output swallowed BrokenPipeError,
\* main having returned SUCCESS_EXIT_CODE.  Output the failed write left in
\* the buffer of sys.stdout is flushed again when the interpreter exits, and
\* fails again; if the failed write left nothing behind the exit is silent.
BrokenPipeExitCodes == {SUCCESS_EXIT_CODE, FLUSH_FAILED_EXIT_CODE}

\* ------------------------------------------------------------ inputs
\* the longest selector list of an invocation
MaxSelectors == 2

\* the -e arguments the invocations choose among: CSS selectors, XPath
\* expressions of each of the three prefixes, a selector that cssselect
\* rejects and an expression that the XPath evaluator rejects
Selectors ==
  {"p", "a", "h1", "div.missing", "//p/text()", "./body", "(string(//h1))", "p[", "//p["}

SelectorLists == UNION {[1..n -> Selectors] : n \in 0..MaxSelectors}

\* the content of the input source
Documents ==
  {"",
   "<p> </p><p>x</p>",
   "<a>no-link</a><a href=\"http://x\">link</a>",
   "<div><span></div>",
   "<div><h1>a\tb</h1> <a href=\" \">y</a></div>"}

Attributes == {"", "href"}

\* ------------------------------------------------------------ state
VARIABLES
  args,               \* the parsed command line (argparse's namespace)
  HAS_CSSSELECT,      \* whether the import of cssselect succeeded
  input_bytes,        \* what the input source (the -f file, or HTML/stdin) holds
  file_status,        \* whether the -f file can be opened: ok, missing, denied
                      \* (ok without -f; a file that cannot be opened holds nothing)
  pc,                 \* where main() is
  xpath_expressions,  \* convert_selectors_to_xpath's result
  source_pos,         \* how many characters of the input source were read
  parser_input,       \* <<content>> once a parser was handed content
  document_tree,      \* parse_html_document's result
  si,                 \* process_elements: index of the current expression
  elements,           \* process_elements: the result items of expression si
  ei,                 \* process_elements: index of the current element
  extracted_texts,    \* process_elements: the accumulated list
  evaluated,          \* the indices of the expressions evaluated so far, in order
  stdout,             \* what was written to standard output
  stderr,             \* the diagnostics printed, in order
  exit_code,          \* the process's exit code, -1 while it runs
  open_sources,       \* the input sources that are open: args.html, which
                      \* argparse opened (or standard input), and the -f file
  broken_pipe         \* whether write_output met BrokenPipeError

vars == <<args, HAS_CSSSELECT, input_bytes, file_status, pc, xpath_expressions,
          source_pos, parser_input, document_tree, si, elements, ei,
          extracted_texts, evaluated, stdout, stderr, exit_code, open_sources,
          broken_pipe>>

env == <<args, HAS_CSSSELECT, input_bytes, file_status>>

NoTree == [kind |-> "none"]

\* The HTML argument is read exactly as standard input is (html_source.read()
\* or etree.parse(html_source, ...)), so the invocations that read a
\* positional file are drawn with at most one selector.
Init ==
  /\ args \in [selectors : SelectorLists, attribute : Attributes,
               include_body_tags : BOOLEAN, input_file : {"", "page.html"},
               html : {"stdin", "positional"}, check_existence : BOOLEAN,
               raw_input : BOOLEAN]
  /\ HAS_CSSSELECT \in BOOLEAN
  /\ input_bytes \in Documents
  /\ file_status \in {"ok", "missing", "denied"}
  /\ (args.input_file = "" => file_status = "ok")
  /\ (file_status # "ok" => input_bytes = "")
  /\ (args.html = "positional" /\ args.input_file = "" => Len(args.selectors) <= 1)
  /\ pc = "validate"
  /\ xpath_expressions = <<>>
  /\ source_pos = 0
  /\ parser_input = <<>>
  /\ document_tree = NoTree
  /\ si = 1
  /\ elements = <<>>
  /\ ei = 1
  /\ extracted_texts = <<>>
  /\ evaluated = <<>>
  /\ stdout = ""
  /\ stderr = <<>>
  /\ exit_code = -1
  /\ open_sources = {args.html}
  /\ broken_pipe = FALSE

\* sys.exit(code) after printing the diagnostics msgs
Exit(code, msgs) ==
  /\ pc' = "exit"
  /\ exit_code' = code
  /\ stderr' = stderr \o msgs

\* validate_arguments
ValidateArguments ==
  /\ pc = "validate"
  /\ IF args.selectors = <<>>
     THEN Exit(ERROR_EXIT_CODE, <<"no_selectors">>)
     ELSE IF args.input_file # "" /\ args.html # "stdin"
     THEN Exit(ERROR_EXIT_CODE, <<"conflict">>)
     ELSE pc' = "convert" /\ UNCHANGED <<exit_code, stderr>>
  /\ UNCHANGED <<env, xpath_expressions, source_pos, parser_input, document_tree,
                 si, elements, ei, extracted_texts, evaluated, stdout, open_sources,
                 broken_pipe>>

\* main: xpath_expressions = convert_selectors_to_xpath(args.selectors)
ConvertSelectors ==
  /\ pc = "convert"
  /\ LET r == convert_selectors_to_xpath(args.selectors, HAS_CSSSELECT)
     IN IF r.ok
        THEN /\ xpath_expressions' = r.xpath_expressions
             /\ pc' = "parse"
             /\ UNCHANGED <<exit_code, stderr>>
        ELSE /\ Exit(ERROR_EXIT_CODE, <<r.err>>)
             /\ UNCHANGED xpath_expressions
  /\ UNCHANGED <<env, source_pos, parser_input, document_tree,
                 si, elements, ei, extracted_texts, evaluated, stdout, open_sources,
                 broken_pipe>>


\* HTMLParser(recover=True) on content.  On empty content libxml2 reports
\* "Document is empty": depending on the lxml build that is raised as
\* XMLSyntaxError or a tree without a root element is returned.
HtmlParseOutcomes(content) ==
  IF content = "" THEN {[kind |-> "error"], [kind |-> "rootless"]}
  ELSE {[kind |-> "tree", root |-> HtmlParse(content).root]}

\* etree.fromstring(content)
XmlParseOutcomes(content) ==
  LET r == XmlParse(content)
  IN IF r.ok THEN {[kind |-> "tree", root |-> r.root]} ELSE {[kind |-> "error"]}

\* source.read(): everything from the stream's position on
ReadRest(bytes, pos) == SubSeq(bytes, pos + 1, Len(bytes))

\* What the parser is handed when the input is the -f file: content is what
\* input_source.read() returned and rest what is left of input_source.
FileParserInput(content, rest, is_raw_input) ==
  IF is_raw_input THEN content ELSE rest

\* What the parser is handed when the input is the HTML argument or stdin:
\* content is what html_source.read() returns.
StreamParserInput(content, is_raw_input) ==
  IF is_raw_input /\ content = "" THEN EMPTY_HTML_FALLBACK ELSE content

\* the content after the emptiness test
OrFallback(content) == IF content = "" THEN EMPTY_HTML_FALLBACK ELSE content

\* the with statement of parse_html_document: input_source is open inside
\* the block and closed when the block is left, at its end or by an exception
AfterWith(open, input_source) == open \ {input_source}

\* parse_html_document(args.input_file, args.html, args.raw_input)
ParseHtmlDocument ==
  /\ pc = "parse"
  /\ IF args.input_file # "" /\ file_status # "ok"
     THEN /\ Exit(ERROR_EXIT_CODE,
                  <<IF file_status = "missing" THEN "not_found" ELSE "permission">>)
          /\ UNCHANGED <<source_pos, parser_input, document_tree, open_sources>>
     ELSE
       LET content == ReadRest(input_bytes, source_pos)
           read == args.input_file # "" \/ args.raw_input
           warn == IF read /\ content = ""
                   THEN <<IF args.input_file # "" THEN "warn_empty_file"
                          ELSE "warn_no_input">>
                   ELSE <<>>
           given == IF args.input_file # ""
                    THEN FileParserInput(OrFallback(content),
                                         ReadRest(input_bytes, Len(input_bytes)),
                                         args.raw_input)
                    ELSE StreamParserInput(content, args.raw_input)
       IN /\ source_pos' = Len(input_bytes)
          /\ open_sources' = IF args.input_file # ""
                             THEN AfterWith(open_sources \cup {args.input_file},
                                            args.input_file)
                             ELSE open_sources
          /\ parser_input' = <<given>>
          /\ \E t \in (IF args.raw_input THEN XmlParseOutcomes(given)
                       ELSE HtmlParseOutcomes(given)) :
               IF t.kind = "error"
               THEN /\ Exit(ERROR_EXIT_CODE, warn \o <<"syntax">>)
                    /\ UNCHANGED document_tree
               ELSE /\ document_tree' = t
                    /\ pc' = "process"
                    /\ stderr' = stderr \o warn
                    /\ UNCHANGED exit_code
  /\ UNCHANGED <<env, xpath_expressions, si, elements, ei, extracted_texts,
                 evaluated, stdout, broken_pipe>>

\* mutant: an expression that fails to evaluate is passed over
XPathList_PassesOverFailure(tree, xpath_expression) ==
  IF tree.kind # "tree" THEN [ok |-> FALSE, err |-> "eval_failed"]
  ELSE IF ListOf(Evaluate(tree.root, xpath_expression)).ok
  THEN ListOf(Evaluate(tree.root, xpath_expression))
  ELSE [ok |-> TRUE, items |-> <<>>]

\* document_tree.xpath(xpath_expression) and list() of it: the items, or the
\* exception the try block catches.  A tree without a root fails every call.
XPathList(tree, xpath_expression) ==
  IF tree.kind # "tree" THEN [ok |-> FALSE, err |-> "eval_failed"]
  ELSE ListOf(Evaluate(tree.root, xpath_expression))

\* mutant: the early exit is never taken
ExistsExit_Never(check_existence, items) == FALSE

\* mutant: the early exit is taken in normal mode and not in check mode
ExistsExit_Inverted(check_existence, items) == ~check_existence /\ items # <<>>

\* the test of the existence-check exit
ExistsExit(check_existence, items) == check_existence /\ items # <<>>

\* process_elements: the head of the outer loop for expression si, up to
\* the existence-check exit; at the end of the list, the return to main
EvaluateSelector ==
  /\ pc = "process"
  /\ IF si > Len(xpath_expressions)
     THEN /\ pc' = "return"
          /\ UNCHANGED <<elements, ei, evaluated, exit_code, stderr>>
     ELSE LET r == XPathList(document_tree, xpath_expressions[si])
          IN /\ evaluated' = Append(evaluated, si)
             /\ IF ~r.ok
                THEN /\ Exit(ERROR_EXIT_CODE, <<r.err>>)
                     /\ UNCHANGED <<elements, ei>>
                ELSE /\ elements' = r.items
                     /\ ei' = 1
                     /\ IF ExistsExit(args.check_existence, r.items)
                        THEN Exit(SUCCESS_EXIT_CODE, <<>>)
                        ELSE pc' = "extract" /\ UNCHANGED <<exit_code, stderr>>
  /\ UNCHANGED <<env, xpath_expressions, source_pos, parser_input, document_tree,
                 si, extracted_texts, stdout, open_sources, broken_pipe>>

\* mutant: the tree's content is released once a result list is worked off
ExtractElement_Clear ==
  /\ pc = "extract"
  /\ IF ei > Len(elements)
     THEN /\ si' = si + 1
          /\ pc' = "process"
          /\ document_tree' = [document_tree EXCEPT !.root.kids = <<>>]
          /\ UNCHANGED <<ei, extracted_texts>>
     ELSE /\ extracted_texts' = AppendText(extracted_texts, elements[ei], args.attribute)
          /\ ei' = ei + 1
          /\ UNCHANGED <<si, pc, document_tree>>
  /\ UNCHANGED <<env, xpath_expressions, source_pos, parser_input,
                 elements, evaluated, stdout, stderr, exit_code, open_sources,
                 broken_pipe>>

\* process_elements: one turn of the inner loop, or its end
ExtractElement ==
  /\ pc = "extract"
  /\ IF ei > Len(elements)
     THEN /\ si' = si + 1
          /\ pc' = "process"
          /\ UNCHANGED <<ei, extracted_texts>>
     ELSE /\ extracted_texts' = AppendText(extracted_texts, elements[ei], args.attribute)
          /\ ei' = ei + 1
          /\ UNCHANGED <<si, pc>>
  /\ UNCHANGED <<env, xpath_expressions, source_pos, parser_input, document_tree,
                 elements, evaluated, stdout, stderr, exit_code, open_sources,
                 broken_pipe>>

\* the exit code of the existence check when process_elements returned
CheckResult(texts) == IF texts # <<>> THEN SUCCESS_EXIT_CODE ELSE ERROR_EXIT_CODE

\* mutant: the test of the existence check's return statement is applied
\* in normal mode too, so that an empty list is an error and nothing is
\* written for it
Finish_EmptyIsError ==
  /\ pc = "return"
  /\ IF args.check_existence \/ extracted_texts = <<>>
     THEN /\ Exit(CheckResult(extracted_texts), <<>>)
          /\ UNCHANGED <<stdout, broken_pipe>>
     ELSE /\ stdout' = stdout \o Render(extracted_texts, args.include_body_tags)
          /\ broken_pipe' = FALSE
          /\ Exit(SUCCESS_EXIT_CODE, <<>>)
  /\ UNCHANGED <<env, xpath_expressions, source_pos, parser_input, document_tree,
                 si, elements, ei, extracted_texts, evaluated, open_sources>>

\* mutant: main without the existence check's return statement, so that
\* write_output runs in both modes
Finish_NoCheckReturn ==
  /\ pc = "return"
  /\ stdout' = stdout \o Render(extracted_texts, args.include_body_tags)
  /\ Exit(SUCCESS_EXIT_CODE, <<>>)
  /\ UNCHANGED <<env, xpath_expressions, source_pos, parser_input, document_tree,
                 si, elements, ei, extracted_texts, evaluated, open_sources,
                 broken_pipe>>

\* main, after process_elements returned: the existence check's result, or
\* write_output and success, and exit(main()).  In write_output the reader
\* of standard output takes all the writes, or it closes its end after n of
\* them: the write that comes next raises BrokenPipeError, which write_output
\* swallows, and main returns SUCCESS_EXIT_CODE.
Finish ==
  /\ pc = "return"
  /\ IF args.check_existence
     THEN /\ Exit(CheckResult(extracted_texts), <<>>)
          /\ UNCHANGED <<stdout, broken_pipe>>
     ELSE \E n \in 0..Len(Writes(extracted_texts, args.include_body_tags)) :
            IF n = Len(Writes(extracted_texts, args.include_body_tags))
            THEN /\ stdout' = stdout \o Render(extracted_texts, args.include_body_tags)
                 /\ broken_pipe' = FALSE
                 /\ Exit(SUCCESS_EXIT_CODE, <<>>)
            ELSE /\ broken_pipe' = TRUE
                 /\ stdout' = stdout \o Delivered(Writes(extracted_texts,
                                                          args.include_body_tags), n)
                 /\ \E code \in BrokenPipeExitCodes :
                      Exit(code, IF code = FLUSH_FAILED_EXIT_CODE
                                 THEN <<"exception_ignored">> ELSE <<>>)
  /\ UNCHANGED <<env, xpath_expressions, source_pos, parser_input, document_tree,
                 si, elements, ei, extracted_texts, evaluated, open_sources>>

Next ==
  \/ ValidateArguments
  \/ ConvertSelectors
  \/ ParseHtmlDocument
  \/ EvaluateSelector
  \/ ExtractElement
  \/ Finish

Spec == Init /\ [][Next]_vars
\* ------------------------------------------------------------ claims
\* the run passed validate_arguments, convert_selectors_to_xpath and
\* parse_html_document, and process_elements has a document to work on
Processing == document_tree.kind = "tree"

\* the result items of expression i on the parsed document
ResultOf(i) == XPathList(document_tree, xpath_expressions[i])

\* a result item whose text is not discarded: it has a text, and the text is
\* not empty after trimming
NonDiscarded(item) ==
  LET t == extract_element_text(item, args.attribute)
  IN ~t.none /\ Strip(t.text) # ""

AllEvaluate == \A i \in 1..Len(xpath_expressions) : ResultOf(i).ok

\* C1, as claimed: in existence-check mode the exit code is 0 if and only if
\* some selector yields a result item that is not discarded (stated for the
\* runs in which every selector evaluates).
C1_Original ==
  (pc = "exit" /\ args.check_existence /\ Processing /\ AllEvaluate)
    => (exit_code = SUCCESS_EXIT_CODE
          <=> \E i \in 1..Len(xpath_expressions) :
                \E n \in 1..Len(ResultOf(i).items) : NonDiscarded(ResultOf(i).items[n]))

\* C1, amended: in existence-check mode the exit code is 0 if and only if
\* some selector returns at least one result item, discarded or not, and no
\* selector before it fails to evaluate; otherwise it is 1.
C1_ExistsIffAnyResultItem ==
  (pc = "exit" /\ args.check_existence /\ Processing)
    => /\ exit_code \in {SUCCESS_EXIT_CODE, ERROR_EXIT_CODE}
       /\ exit_code = SUCCESS_EXIT_CODE
            <=> \E i \in 1..Len(xpath_expressions) :
                  /\ \A j \in 1..i : ResultOf(j).ok
                  /\ ResultOf(i).items # <<>>

\* C1's case: an existence check ended with "exists" although every result
\* item of every selector is discarded.
C1_Witness ==
  /\ pc = "exit" /\ args.check_existence /\ Processing /\ AllEvaluate
  /\ exit_code = SUCCESS_EXIT_CODE
  /\ \A i \in 1..Len(xpath_expressions) :
       \A n \in 1..Len(ResultOf(i).items) : ~NonDiscarded(ResultOf(i).items[n])

\* the documents of the claims' examples
DocBlankP == "<p> </p><p>x</p>"
DocLinks == "<a>no-link</a><a href=\"http://x\">link</a>"
DocMalformed == "<div><span></div>"

\* expression k was evaluated and matched: it returned at least one item
Matched(k) == ResultOf(k).ok /\ ResultOf(k).items # <<>>

\* expression k was evaluated and returned no item
MatchedNothing(k) == ResultOf(k).ok /\ ResultOf(k).items = <<>>

\* C2: in existence-check mode the selectors are evaluated left to right,
\* nothing is evaluated after a selector that matched, the match ends the
\* run with exit code 0, and selectors that match nothing before it do not
\* keep the run from reaching it.
C2_LeftToRightShortCircuit ==
  (args.check_existence /\ Processing) =>
    /\ \A k \in 1..Len(evaluated) : evaluated[k] = k
    /\ \A k \in 1..(Len(evaluated) - 1) : MatchedNothing(k)
    /\ pc = "exit" =>
         \A i \in 1..Len(xpath_expressions) :
           (Matched(i) /\ \A j \in 1..(i - 1) : MatchedNothing(j))
             => (exit_code = SUCCESS_EXIT_CODE /\ Len(evaluated) = i)

\* C2's case: ["div.missing", "h1"] against a document with an <h1>
C2_Witness ==
  /\ args.check_existence /\ Processing /\ pc = "exit"
  /\ args.selectors = <<"div.missing", "h1">>
  /\ Contains(input_bytes, "<h1>")
  /\ evaluated = <<1, 2>>
  /\ exit_code = SUCCESS_EXIT_CODE

\* the run is a normal-mode run that has a document
Normal == ~args.check_existence /\ Processing

\* the first n items are elements
AllElements(items, n) == \A m \in 1..n : items[m].kind = "el"

\* C3, as claimed: with no attribute requested, document <p> </p><p>x</p>
\* and selector p yield the single entry "x".
C3_Original ==
  (Normal /\ pc = "return" /\ args.attribute = "" /\ input_bytes = DocBlankP
     /\ args.selectors = <<"p">>)
    => extracted_texts = <<"x">>

\* C3, amended: in normal mode with no attribute requested every matched
\* element contributes one entry, its markup, also when its content is only
\* whitespace: the document parsed from <p> </p><p>x</p> and selector p yield
\* the two entries "<p> </p>" and "<p>x</p>".
C3_ElementContributesItsMarkup ==
  /\ (Normal /\ pc = "return" /\ args.attribute = "" /\ input_bytes = DocBlankP
        /\ args.selectors = <<"p">>)
       => extracted_texts = <<"<p> </p>", "<p>x</p>">>
  /\ (Normal /\ pc = "extract" /\ args.attribute = "" /\ AllElements(elements, ei - 1))
       => /\ Len(extracted_texts) >= ei - 1
          /\ \A m \in 1..(ei - 1) :
               extracted_texts[Len(extracted_texts) - (ei - 1) + m]
                 = Strip(tostring(elements[m]))

\* C3's case: selector p was processed on the document of <p> </p><p>x</p>
C3_Witness ==
  /\ Normal /\ pc = "return" /\ args.attribute = "" /\ input_bytes = DocBlankP
  /\ args.selectors = <<"p">>
  /\ Len(extracted_texts) = 2

\* C4: every entry of extracted_texts is non-empty and equals its own trim,
\* at every point of process_elements and after it.
C4_EntriesTrimmedNonEmpty ==
  \A n \in 1..Len(extracted_texts) :
    extracted_texts[n] # "" /\ Strip(extracted_texts[n]) = extracted_texts[n]

\* C4's case: the text of the element just processed had blanks around it
\* and its trim was appended
C4_Witness ==
  /\ pc = "extract" /\ ei > 1 /\ extracted_texts # <<>>
  /\ LET t == extract_element_text(elements[ei - 1], args.attribute)
     IN /\ ~t.none
        /\ Strip(t.text) # t.text
        /\ extracted_texts[Len(extracted_texts)] = Strip(t.text)

\* the entries the first n elements are to contribute when an attribute is
\* requested: the trimmed value of each element that carries the attribute
\* with a non-blank value
RECURSIVE AttributeEntries(_, _, _)
AttributeEntries(items, n, attribute) ==
  IF n = 0 THEN <<>>
  ELSE LET a == GetAttr(items[n].node.attrs, attribute)
           rest == AttributeEntries(items, n - 1, attribute)
       IN IF ~a.none /\ Strip(a.value) # "" THEN Append(rest, Strip(a.value)) ELSE rest

\* C5: with an attribute requested, a matched element without the attribute
\* contributes nothing and is no error, and one that carries it with a
\* non-blank value contributes the trimmed value: selector a with attribute
\* href on <a>no-link</a><a href="http://x">link</a> yields "http://x" alone.
C5_MissingAttributeSkipped ==
  /\ (Normal /\ pc = "return" /\ args.attribute = "href" /\ input_bytes = DocLinks
        /\ args.selectors = <<"a">>)
       => (extracted_texts = <<"http://x">> /\ stderr = <<>>)
  /\ (Normal /\ pc = "extract" /\ args.attribute # "" /\ AllElements(elements, ei - 1))
       => LET want == AttributeEntries(elements, ei - 1, args.attribute)
              have == extracted_texts
          IN /\ Len(have) >= Len(want)
             /\ SubSeq(have, Len(have) - Len(want) + 1, Len(have)) = want
             /\ exit_code = -1

\* C5's case: the example run, after both <a> elements were processed
C5_Witness ==
  /\ Normal /\ pc = "return" /\ args.attribute = "href" /\ input_bytes = DocLinks
  /\ args.selectors = <<"a">>
  /\ extracted_texts = <<"http://x">>

\* a warning about empty input was printed
Warned == InSeq("warn_empty_file", stderr) \/ InSeq("warn_no_input", stderr)

\* the command line passes validate_arguments
ValidArgs == args.selectors # <<>> /\ ~(args.input_file # "" /\ args.html # "stdin")

\* C6, as claimed: when the input source is empty, from the -f file or from
\* the stream, in tolerant or in raw mode, the fallback document is parsed in
\* its place, a warning is printed, and a normal-mode run whose selector
\* matches nothing ends with exit code 0.
C6_EmptyInputFallsBack ==
  (pc = "exit" /\ input_bytes = "" /\ file_status = "ok" /\ ValidArgs /\ HAS_CSSSELECT
     /\ ~args.check_existence /\ args.selectors = <<"div.missing">>)
    => /\ parser_input = <<EMPTY_HTML_FALLBACK>>
       /\ Warned
       /\ exit_code = SUCCESS_EXIT_CODE

\* C7, as claimed: with a readable -f file the parser is handed the bytes
\* read from the file (the fallback document if there are none), in tolerant
\* and in raw mode.
C7_ParserReceivesFileContent ==
  (args.input_file # "" /\ parser_input # <<>>)
    => parser_input = <<OrFallback(input_bytes)>>

\* C8, as claimed: on the malformed input <div><span></div> tolerant parsing
\* succeeds and the run goes on to process_elements, and raw parsing ends the
\* run with a diagnostic and exit code 1 before anything is evaluated.
C8_RawRejectsTolerantAccepts ==
  (input_bytes = DocMalformed /\ parser_input # <<>>)
    => IF args.raw_input
       THEN /\ pc = "exit" /\ exit_code = ERROR_EXIT_CODE
            /\ InSeq("syntax", stderr)
            /\ evaluated = <<>> /\ extracted_texts = <<>> /\ stdout = ""
       ELSE Processing

\* the prefix test of the classification rule
HasXPathPrefix(selector) ==
  StartsWith(selector, "//") \/ StartsWith(selector, "./") \/ StartsWith(selector, "(")

\* convert_selectors_to_xpath returned: validation leaves at least one
\* selector, so its result is not empty
Converted == xpath_expressions # <<>>

\* C9: when convert_selectors_to_xpath returns, its result has one entry per
\* selector, in input order: the selector itself if it starts with //, ./ or
\* (, and its CSS translation otherwise.
C9_OneEntryPerSelector ==
  Converted =>
    /\ Len(xpath_expressions) = Len(args.selectors)
    /\ \A i \in 1..Len(args.selectors) :
         IF HasXPathPrefix(args.selectors[i])
         THEN xpath_expressions[i] = args.selectors[i]
         ELSE /\ css_to_xpath(args.selectors[i]).ok
              /\ xpath_expressions[i] = css_to_xpath(args.selectors[i]).xpath

\* C9's case: a parenthesised XPath expression followed by a CSS selector
C9_Witness ==
  /\ Converted
  /\ args.selectors = <<"(string(//h1))", "div.missing">>
  /\ xpath_expressions[1] = "(string(//h1))"
  /\ xpath_expressions[2] # "div.missing"

\* a CSS selector of the list cannot be compiled: the translator is absent
\* or rejects it
Uncompilable ==
  \E i \in 1..Len(args.selectors) :
    /\ ~HasXPathPrefix(args.selectors[i])
    /\ ~HAS_CSSSELECT \/ ~css_to_xpath(args.selectors[i]).ok

\* C10: if a CSS selector cannot be compiled the run ends with exit code 1
\* in convert_selectors_to_xpath at the latest: the input source is not read,
\* nothing is parsed, and no expression is kept or evaluated.
C10_CompileFailureBeforeInput ==
  Uncompilable =>
    /\ pc \in {"validate", "convert", "exit"}
    /\ pc = "exit" => exit_code = ERROR_EXIT_CODE
    /\ source_pos = 0 /\ parser_input = <<>> /\ document_tree = NoTree
    /\ xpath_expressions = <<>> /\ evaluated = <<>>
    /\ extracted_texts = <<>> /\ stdout = ""

\* C10's case: the selector cssselect rejects comes after a valid one
C10_Witness ==
  /\ pc = "exit" /\ exit_code = ERROR_EXIT_CODE
  /\ HAS_CSSSELECT /\ Len(args.selectors) = 2
  /\ args.selectors[1] = "p" /\ args.selectors[2] = "p["
  /\ stderr = <<"invalid_css">>

\* the diagnostics of the fatal errors: configuration, missing capability,
\* invalid selector, source, parse and evaluation errors
ErrorDiagnostics ==
  {"no_selectors", "conflict", "no_cssselect", "invalid_css", "not_found",
   "permission", "syntax", "invalid_xpath", "eval_failed"}

\* the evaluator rejects expression i, or its value cannot be listed
EvaluationFails(i) ==
  Evaluate(document_tree.root, xpath_expressions[i]).kind \in {"error", "number"}

\* C11: when the invocation ends with an error of any kind, nothing has been
\* written to standard output and the exit code is 1; in particular a
\* normal-mode run in which some expression fails to evaluate never
\* completes: it ends with exit code 1 and the texts extracted before the
\* failure are not emitted.
C11_NoOutputOnError ==
  /\ (\E m \in ErrorDiagnostics : InSeq(m, stderr))
       => (pc = "exit" /\ exit_code = ERROR_EXIT_CODE /\ stdout = "")
  /\ exit_code = ERROR_EXIT_CODE => stdout = ""
  /\ (Normal /\ pc \in {"return", "exit"}
        /\ \E i \in 1..Len(xpath_expressions) : EvaluationFails(i))
       => (pc = "exit" /\ exit_code = ERROR_EXIT_CODE /\ stdout = "")

\* C11's case: the second expression failed to evaluate after the first
\* one had contributed texts
C11_Witness ==
  /\ Normal /\ pc = "exit" /\ Len(xpath_expressions) = 2
  /\ EvaluationFails(2) /\ evaluated = <<1, 2>>
  /\ extracted_texts # <<>>
  /\ exit_code = ERROR_EXIT_CODE /\ stdout = ""

\* the entries 1..n of texts with one tab between neighbours
RECURSIVE TabJoined(_, _)
TabJoined(texts, n) ==
  IF n = 0 THEN ""
  ELSE IF n = 1 THEN texts[1]
  ELSE TabJoined(texts, n - 1) \o "\t" \o texts[n]

\* the output the format rule prescribes for texts
ExpectedOutput(texts, wrap) ==
  IF wrap
  THEN "<!DOCTYPE html>\n<html>\n<body>\n" \o TabJoined(texts, Len(texts))
       \o "\n</body>\n</html>" \o "\n"
  ELSE TabJoined(texts, Len(texts)) \o "\n"

\* write_output ran and every write of it got through
OutputWritten == Normal /\ pc = "exit" /\ exit_code = SUCCESS_EXIT_CODE /\ ~broken_pipe

\* C12: when write_output completes, standard output holds exactly the
\* entries joined by single tabs and one newline, between the fixed opening
\* and closing when wrapping is on, for every extracted-text sequence, the
\* empty one included, and it ends with exactly one newline.
C12_OutputFormat ==
  OutputWritten =>
    /\ stdout = ExpectedOutput(extracted_texts, args.include_body_tags)
    /\ EndsWith(stdout, "\n") /\ ~EndsWith(stdout, "\n\n")

\* C12's case: a wrapped output of two entries or more
C12_Witness ==
  /\ OutputWritten /\ args.include_body_tags /\ Len(extracted_texts) >= 2
  /\ StartsWith(stdout, "<!DOCTYPE html>")

\* how many times character c occurs in s
RECURSIVE CountChar(_, _)
CountChar(s, c) ==
  IF Len(s) = 0 THEN 0
  ELSE (IF CharAt(s, 1) = c THEN 1 ELSE 0) + CountChar(SubSeq(s, 2, Len(s)), c)

\* the number of tab-separated fields of a line; an empty line has none
Fields(line) == IF line = "" THEN 0 ELSE CountChar(line, "\t") + 1

\* the tabs and line breaks inside the entries of texts
RECURSIVE InteriorBreaks(_, _, _)
InteriorBreaks(texts, n, c) ==
  IF n = 0 THEN 0 ELSE InteriorBreaks(texts, n - 1, c) + CountChar(texts[n], c)

\* write_output completed without the envelope
PlainOutputWritten == OutputWritten /\ ~args.include_body_tags

\* standard output without its last character
OutputLine == SubSeq(stdout, 1, Len(stdout) - 1)

\* C13, as claimed: the un-wrapped output is a single line, with no line
\* break but its final newline, and it has as many tab-separated fields as
\* there are entries, whatever the entries contain.
C13_Original ==
  PlainOutputWritten =>
    /\ CountChar(stdout, "\n") = 1 /\ EndsWith(stdout, "\n")
    /\ Fields(OutputLine) = Len(extracted_texts)

\* C13, amended: the un-wrapped output is the entries, each emitted as it
\* is, with one tab between neighbours and one newline at the end; a tab or
\* line break inside an entry is emitted unchanged, so the output has one
\* field more per interior tab and one line more per interior line break,
\* and it is a single line of as many fields as entries exactly when no
\* entry holds a tab or a line break.
C13_TabJoinedVerbatim ==
  PlainOutputWritten =>
    /\ EndsWith(stdout, "\n")
    /\ OutputLine = TabJoined(extracted_texts, Len(extracted_texts))
    /\ CountChar(stdout, "\n")
         = 1 + InteriorBreaks(extracted_texts, Len(extracted_texts), "\n")
    /\ Fields(OutputLine)
         = Len(extracted_texts) + InteriorBreaks(extracted_texts, Len(extracted_texts), "\t")

\* C13's case: an entry with a tab inside it was written
C13_Witness ==
  /\ PlainOutputWritten
  /\ \E n \in 1..Len(extracted_texts) : CountChar(extracted_texts[n], "\t") > 0
  /\ Fields(OutputLine) > Len(extracted_texts)

\* C14: in existence-check mode nothing is written to standard output,
\* whether a match is found, none is found or the run ends with an error:
\* write_output is not reached, and a run that ends does so with exit code
\* 0 or 1 and no output.
C14_CheckModeWritesNothing ==
  args.check_existence =>
    /\ stdout = "" /\ ~broken_pipe
    /\ pc = "exit" => exit_code \in {SUCCESS_EXIT_CODE, ERROR_EXIT_CODE}

\* C14's case: an existence check in which no selector matched came back
\* from process_elements to main and ended there with "does not exist"
C14_Witness ==
  /\ args.check_existence /\ Processing /\ pc = "exit"
  /\ AllEvaluate /\ Len(evaluated) = Len(xpath_expressions)
  /\ \A i \in 1..Len(xpath_expressions) : MatchedNothing(i)
  /\ exit_code = ERROR_EXIT_CODE /\ stdout = ""

\* an error was reported: a validation, selector, source, parse or
\* evaluation error
ErrorReported == \E m \in ErrorDiagnostics : InSeq(m, stderr)

\* C15, as claimed: every invocation ends with exit code 0 or 1; it is 1
\* for every reported error and for "does not exist" in check mode, and it
\* is 0 only when normal-mode extraction completed and its output was
\* written, or when check mode found a match.
C15_ExitCodeZeroOrOne ==
  pc = "exit" =>
    /\ exit_code \in {SUCCESS_EXIT_CODE, ERROR_EXIT_CODE}
    /\ ErrorReported => exit_code = ERROR_EXIT_CODE
    /\ (args.check_existence /\ Processing /\ AllEvaluate
          /\ \A i \in 1..Len(xpath_expressions) : MatchedNothing(i))
         => exit_code = ERROR_EXIT_CODE
    /\ exit_code = SUCCESS_EXIT_CODE =>
         \/ /\ Normal /\ Len(evaluated) = Len(xpath_expressions)
            /\ stdout = ExpectedOutput(extracted_texts, args.include_body_tags)
         \/ /\ args.check_existence /\ Processing
            /\ \E i \in 1..Len(xpath_expressions) : Matched(i)

\* C16, as claimed: when the reader closes standard output while
\* write_output is writing, the failure is swallowed, no diagnostic is
\* produced and the exit code is 0.
C16_BrokenPipeSilentSuccess ==
  (pc = "exit" /\ broken_pipe) =>
    /\ exit_code = SUCCESS_EXIT_CODE
    /\ \A k \in 1..Len(stderr) : stderr[k] \in {"warn_empty_file", "warn_no_input"}

\* the source the invocation reads its input from: the -f file, or the
\* HTML argument (standard input by default) when there is no -f
InputSource == IF args.input_file # "" THEN args.input_file ELSE args.html

\* C17, as claimed: on every exit path the input source that was opened has
\* been closed when the process ends.
C17_SourceClosedOnExit ==
  pc = "exit" => InputSource \notin open_sources

\* the surviving texts of the first n of items, in the order of items
RECURSIVE SurvivingTexts(_, _)
SurvivingTexts(items, n) ==
  IF n = 0 THEN <<>>
  ELSE IF NonDiscarded(items[n])
  THEN Append(SurvivingTexts(items, n - 1),
              Strip(extract_element_text(items[n], args.attribute).text))
  ELSE SurvivingTexts(items, n - 1)

AllSurvivingTexts(items) == SurvivingTexts(items, Len(items))

\* the surviving texts of expressions 1..k, expression by expression
RECURSIVE TextsOfSelectors(_)
TextsOfSelectors(k) ==
  IF k = 0 THEN <<>>
  ELSE TextsOfSelectors(k - 1) \o AllSurvivingTexts(ResultOf(k).items)

\* C18: in normal mode every selector is evaluated, in declaration order,
\* and extracted_texts is the surviving texts of selector 1 in the order the
\* evaluator returned them, then those of selector 2, and so on, nothing
\* merged or removed: a function of the document, the selector list and the
\* attribute alone.
C18_SelectorThenDocumentOrder ==
  Normal =>
    /\ \A k \in 1..Len(evaluated) : evaluated[k] = k
    /\ pc = "return" =>
         /\ Len(evaluated) = Len(xpath_expressions)
         /\ extracted_texts = TextsOfSelectors(Len(xpath_expressions))
    /\ pc = "extract" =>
         extracted_texts = TextsOfSelectors(si - 1) \o SurvivingTexts(elements, ei - 1)

\* C18's case: the same selector twice, so that every matched node is
\* matched by two selectors, on a document with two p elements
C18_Witness ==
  /\ Normal /\ pc = "return" /\ args.selectors = <<"p", "p">>
  /\ Len(extracted_texts) = 4
  /\ extracted_texts[1] # extracted_texts[2]
  /\ extracted_texts[3] = extracted_texts[1] /\ extracted_texts[4] = extracted_texts[2]

\* the value of the expression process_elements is working on
CurrentValue == Evaluate(document_tree.root, xpath_expressions[si])

\* the text the priority rule gives for a result item: a string as it is,
\* also when an attribute is requested; an element's markup when no
\* attribute is requested; the value of the attribute otherwise
PriorityText(item) ==
  IF item.kind = "str" THEN Some(item.value)
  ELSE IF args.attribute = "" THEN Some(Serialize(item.node) \o item.tail)
  ELSE IF GetAttr(item.node.attrs, args.attribute).none THEN None
  ELSE Some(GetAttr(item.node.attrs, args.attribute).value)

\* C19, as claimed: the text of every result item follows the priority
\* rule, and an expression whose value is a single string has that string
\* as its one result item and contributes at most one entry.
C19_StringResultIsOneItem ==
  (Normal /\ pc = "extract") =>
    /\ \A n \in 1..Len(elements) :
         extract_element_text(elements[n], args.attribute) = PriorityText(elements[n])
    /\ CurrentValue.kind = "string" =>
         /\ Len(elements) <= 1
         /\ \A n \in 1..Len(elements) : elements[n] = StrItem(CurrentValue.value)
         /\ Len(extracted_texts) <= Len(TextsOfSelectors(si - 1)) + 1

\* the result items of expression xp on the document parsed afresh from
\* content, with no selector evaluated before it
FreshItems(content, raw_input, xp) ==
  IF raw_input THEN ListOf(Evaluate(XmlParse(content).root, xp)).items
  ELSE ListOf(Evaluate(HtmlParse(content).root, xp)).items

\* C20: the parsed document is never modified after its construction, and
\* the result items of every selector are those the selector yields on the
\* freshly parsed document, whatever selectors were evaluated and extracted
\* before it.
C20_DocumentImmutable ==
  [][/\ Processing => document_tree' = document_tree
     /\ (Processing /\ pc = "process" /\ pc' = "extract")
          => elements' = FreshItems(parser_input[1], args.raw_input,
                                    xpath_expressions[si])]_vars

\* C20's case: a second selector was evaluated after the matches of the
\* first one had been extracted, and it matched
C20_Witness ==
  /\ Normal /\ pc = "extract" /\ si = 2
  /\ extracted_texts # <<>> /\ elements # <<>>
  /\ elements = FreshItems(parser_input[1], args.raw_input, xpath_expressions[2])

\* the value the evaluator gives expression i on the parsed document
ValueOf(i) == Evaluate(document_tree.root, xpath_expressions[i])

\* value v is a non-empty result: a node-set with a node in it, or a string
\* with a character in it
NonEmptyValue(v) ==
  \/ v.kind = "nodeset" /\ v.items # <<>>
  \/ v.kind = "string" /\ v.value # ""

\* value v decides an existence check: it is a failure to evaluate or a
\* non-empty result
DecidingValue(v) == v.kind \in {"error", "number"} \/ NonEmptyValue(v)

NonEmptyResult(i) == NonEmptyValue(ValueOf(i))

Decides(i) == DecidingValue(ValueOf(i))

\* the first expression from i on, in declaration order, that decides the
\* check, or 0 if there is none
RECURSIVE FirstDeciding(_)
FirstDeciding(i) ==
  IF i > Len(xpath_expressions) THEN 0
  ELSE IF Decides(i) THEN i
  ELSE FirstDeciding(i + 1)

\* the run ended at expression d, the first one that decides the check,
\* with the exit code d calls for
EndedAt(d) ==
  IF d = 0 THEN exit_code = ERROR_EXIT_CODE
  ELSE /\ Len(evaluated) = d
       /\ exit_code = IF EvaluationFails(d) THEN ERROR_EXIT_CODE ELSE SUCCESS_EXIT_CODE

\* C21: an existence check that has a document ends at the first
\* expression, in declaration order, that fails to evaluate or returns a
\* non-empty result: with exit code 1 if it fails, also when a later
\* expression would match, and with exit code 0 if it matches, also when a
\* later expression would fail; nothing after it is evaluated, and without
\* such an expression the exit code is 1.
C21_FirstDecidingSelector ==
  (args.check_existence /\ Processing /\ pc = "exit") => EndedAt(FirstDeciding(1))

\* C21's case: the first expression fails to evaluate and the second would
\* match, and the check ended with 1; in the other order it ends with 0
C21_Witness ==
  /\ args.check_existence /\ Processing /\ pc = "exit"
  /\ Len(xpath_expressions) = 2
  /\ EvaluationFails(1) /\ NonEmptyResult(2)
  /\ evaluated = <<1>> /\ exit_code = ERROR_EXIT_CODE

\* none of the result items survives: each one is discarded
NoSurvivor(items) == \A n \in 1..Len(items) : ~NonDiscarded(items[n])

\* the expression with result r evaluates and contributes no text
ContributesNothing(r) == r.ok /\ NoSurvivor(r.items)

\* no expression yields a text that survives: each evaluates, and each of
\* its result items is discarded
NothingSurvives ==
  \A i \in 1..Len(xpath_expressions) : ContributesNothing(ResultOf(i))

=============================================================================
